---------------------------- MODULE Spec2Model ----------------------------
(***************************************************************************)
(* A model of stats-insta (src/src/App.tsx): the ingestion of an uploaded  *)
(* chat archive (handleFileUpload / reader.onload) and the pure functions  *)
(* that derive the displayed statistics.                                   *)
(*                                                                         *)
(* Strings are sequences of UTF-16 code units (naturals).  An optional     *)
(* field of a JSON object is a field that is or is not in the DOMAIN of    *)
(* the record.  A JavaScript object used as a map is an association list   *)
(* in insertion order; OwnEntries is the order JavaScript enumerates it.   *)
(***************************************************************************)
EXTENDS Integers, Sequences, FiniteSets, TLC

(* ------------------------------ bounds -------------------------------- *)

\* reads that may be in flight at once (Spec)
MaxPending == 2
\* records per document in the interleaving specification (Spec)
MaxRecords == 1
\* records per document in the single-document specification (SpecBatch)
MaxBatch == 2

(* ------------------------------ strings ------------------------------- *)

sA == <<65>>
sB == <<66>>
sHi == <<104, 105>>
\* "é" as the export writes it: its two UTF-8 bytes, each read as a character
sMojibake == <<195, 169>>
\* "é" itself (U+00E9): as a byte it opens a 3-byte sequence that never comes
sEAcute == <<233>>
sConstructor == <<99, 111, 110, 115, 116, 114, 117, 99, 116, 111, 114>>
sToString == <<116, 111, 83, 116, 114, 105, 110, 103>>
sValueOf == <<118, 97, 108, 117, 101, 79, 102>>
sProto == <<95, 95, 112, 114, 111, 116, 111, 95, 95>>
sHasOwnProperty == <<104, 97, 115, 79, 119, 110, 80, 114, 111, 112, 101, 114, 116, 121>>

None == <<>>
Some(x) == <<x>>

Min(a, b) == IF a <= b THEN a ELSE b
Max(a, b) == IF a >= b THEN a ELSE b

\* The sequences over S of length at most n.
SeqUpTo(S, n) == UNION {[1..k -> S] : k \in 0..n}

(* --------------------------- utf8.decode ------------------------------ *)

Utf8Fail == [ok |-> FALSE, str |-> <<>>]

\* ucs2encode of one code point: above the BMP it is a surrogate pair.
ucs2encode(cp) ==
    IF cp > 65535
    THEN << 55296 + ((cp - 65536) \div 1024), 56320 + ((cp - 65536) % 1024) >>
    ELSE << cp >>

\* readContinuationByte at index i: -1 when it throws.
readContinuationByte(b, i) ==
    IF i > Len(b) THEN -1
    ELSE LET c == b[i] % 256 IN
         IF c >= 128 /\ c <= 191 THEN c % 64 ELSE -1

RECURSIVE decodeSymbols(_, _)
\* utf8.js decodeSymbol, repeated from index i to the end of the byte array.
decodeSymbols(b, i) ==
    IF i > Len(b) THEN [ok |-> TRUE, str |-> <<>>]
    ELSE
    LET byte1 == b[i] % 256
        c2 == readContinuationByte(b, i + 1)
        c3 == readContinuationByte(b, i + 2)
        c4 == readContinuationByte(b, i + 3)
        Then(cp, n) ==
            LET rest == decodeSymbols(b, i + n) IN
            IF rest.ok THEN [ok |-> TRUE, str |-> ucs2encode(cp) \o rest.str]
            ELSE Utf8Fail
    IN  IF byte1 < 128 THEN Then(byte1, 1)
        ELSE IF byte1 >= 192 /\ byte1 <= 223 THEN
            IF c2 < 0 THEN Utf8Fail
            ELSE LET cp == (byte1 % 32) * 64 + c2 IN
                 IF cp >= 128 THEN Then(cp, 2) ELSE Utf8Fail
        ELSE IF byte1 >= 224 /\ byte1 <= 239 THEN
            IF c2 < 0 \/ c3 < 0 THEN Utf8Fail
            ELSE LET cp == (byte1 % 16) * 4096 + c2 * 64 + c3 IN
                 IF cp >= 2048 /\ ~(cp >= 55296 /\ cp <= 57343)
                 THEN Then(cp, 3) ELSE Utf8Fail
        ELSE IF byte1 >= 240 /\ byte1 <= 247 THEN
            IF c2 < 0 \/ c3 < 0 \/ c4 < 0 THEN Utf8Fail
            ELSE LET cp == (byte1 % 8) * 262144 + c2 * 4096 + c3 * 64 + c4 IN
                 IF cp >= 65536 /\ cp <= 1114111
                 THEN Then(cp, 4) ELSE Utf8Fail
        ELSE Utf8Fail

\* utf8.decode(byteString): the decoded string, or ok = FALSE when it throws.
\* (The texts drawn here hold no surrogate pair, which ucs2decode would join
\* into one code point before its low eight bits are taken.)
utf8decode(byteString) == decodeSymbols(byteString, 1)

(* ------------------------- JavaScript objects ------------------------- *)

\* Names every object inherits from Object.prototype.
ObjectPrototypeKeys ==
    {sConstructor, sToString, sValueOf, sProto, sHasOwnProperty}

EmptyObject == <<>>

HasOwn(obj, k) == \E i \in 1..Len(obj) : obj[i].key = k

OwnIndex(obj, k) == CHOOSE i \in 1..Len(obj) : obj[i].key = k

OwnValue(obj, k) == obj[OwnIndex(obj, k)].value

\* obj[k] is truthy: an own property (here always an array or a positive
\* count) or a member inherited from Object.prototype.
Truthy(obj, k) == HasOwn(obj, k) \/ k \in ObjectPrototypeKeys

\* obj[k] = v
SetOwn(obj, k, v) ==
    IF HasOwn(obj, k)
    THEN [obj EXCEPT ![OwnIndex(obj, k)].value = v]
    ELSE Append(obj, [key |-> k, value |-> v])

\* Array.prototype.sort((a, b) => key(a) - key(b)), with keys[i] the key of
\* s[i]: a stable sort, ascending by key; equal keys keep their order.
StableSort(s, keys) ==
    LET n == Len(s)
        Before(j, i) == keys[j] < keys[i] \/ (keys[j] = keys[i] /\ j < i)
        pos(i) == 1 + Cardinality({j \in 1..n : Before(j, i)})
    IN  [r \in 1..n |-> s[CHOOSE i \in 1..n : pos(i) = r]]

\* Array.prototype.slice(start, end) with start, end >= 0.
Slice(s, start, end) == SubSeq(s, Min(start, Len(s)) + 1, Min(end, Len(s)))

\* Array.prototype.slice(start): a negative start counts from the end.
SliceFrom(s, start) ==
    LET k == IF start < 0 THEN Max(Len(s) + start, 0) ELSE Min(start, Len(s))
    IN  SubSeq(s, k + 1, Len(s))

RECURSIVE Flat(_)
\* Array.prototype.flat() of an array of arrays.
Flat(ss) == IF ss = <<>> THEN <<>> ELSE Head(ss) \o Flat(Tail(ss))

IsDigit(c) == c >= 48 /\ c <= 57

\* 2^32 - 2, the largest array index, in decimal digits.
MaxArrayIndex == <<52, 50, 57, 52, 57, 54, 55, 50, 57, 52>>

\* a < b for digit strings of one length
LexLess(a, b) ==
    \E i \in 1..Len(a) :
        /\ a[i] < b[i]
        /\ \A j \in 1..(i - 1) : a[j] = b[j]

\* a < b for canonical numerals
IndexLess(a, b) == Len(a) < Len(b) \/ (Len(a) = Len(b) /\ LexLess(a, b))

\* The key is an array index: a canonical numeral of an integer in 0 .. 2^32 - 2.
IsArrayIndex(k) ==
    /\ Len(k) >= 1
    /\ \A i \in 1..Len(k) : IsDigit(k[i])
    /\ Len(k) = 1 \/ k[1] # 48
    /\ IndexLess(k, MaxArrayIndex) \/ k = MaxArrayIndex

\* The entries of obj in the order Object.keys, Object.values and
\* Object.entries enumerate them: array-index keys first, ascending, then the
\* other keys in the order they were created.
OwnEntries(obj) ==
    LET IsIdx(e) == IsArrayIndex(e.key)
        NotIdx(e) == ~IsArrayIndex(e.key)
        idx == SelectSeq(obj, IsIdx)
        \* the keys of one object differ, so the rank of each is its place
        rank == [i \in 1..Len(idx) |->
                    Cardinality({j \in 1..Len(idx) : IndexLess(idx[j].key, idx[i].key)})]
    IN  StableSort(idx, rank) \o SelectSeq(obj, NotIdx)

ObjectKeys(obj) == LET es == OwnEntries(obj) IN [i \in 1..Len(es) |-> es[i].key]
ObjectValues(obj) == LET es == OwnEntries(obj) IN [i \in 1..Len(es) |-> es[i].value]

(* ----------------------------- ingestion ------------------------------ *)

\* msg.content || "" and msg.sender_name || ""
ContentOf(msg) == IF "content" \in DOMAIN msg THEN msg.content ELSE <<>>
SenderOf(msg) == IF "sender_name" \in DOMAIN msg THEN msg.sender_name ELSE <<>>

\* { ...msg, content: c, sender_name: s }
Spread(msg, c, s) ==
    [f \in DOMAIN msg \cup {"content", "sender_name"} |->
        IF f = "content" THEN c
        ELSE IF f = "sender_name" THEN s
        ELSE msg[f]]

\* Mutant: a record that fails to decode is kept with its original text.
IngestRecordFallback(userMessages, msg) ==
    LET content == ContentOf(msg)
        senderName == SenderOf(msg)
        dc == utf8decode(content)
        ds == utf8decode(senderName)
        c == IF dc.ok THEN dc.str ELSE content
        s == IF ds.ok THEN ds.str ELSE senderName
        rec == Spread(msg, c, s)
    IN  IF HasOwn(userMessages, s)
        THEN SetOwn(userMessages, s, Append(OwnValue(userMessages, s), rec))
        ELSE IF s \in ObjectPrototypeKeys THEN userMessages
        ELSE SetOwn(userMessages, s, <<rec>>)

\* The body of messages.forEach: one record into the mapping being built.
IngestRecord(userMessages, msg) ==
    LET content == ContentOf(msg)
        senderName == SenderOf(msg)
        decodedContent == utf8decode(content)
        decodedSenderName == utf8decode(senderName)
    IN  IF ~decodedContent.ok \/ ~decodedSenderName.ok
        THEN userMessages               \* catch (decodeError): logged, skipped
        ELSE
        LET k == decodedSenderName.str
            rec == Spread(msg, decodedContent.str, k)
        IN  IF HasOwn(userMessages, k)
            THEN SetOwn(userMessages, k, Append(OwnValue(userMessages, k), rec))
            ELSE IF Truthy(userMessages, k)
            \* an inherited member is truthy and has no push: the TypeError
            \* lands in the same catch and the record is skipped
            THEN userMessages
            ELSE SetOwn(userMessages, k, <<rec>>)

RECURSIVE IngestFrom(_, _, _)
IngestFrom(userMessages, messages, i) ==
    IF i > Len(messages) THEN userMessages
    ELSE IngestFrom(IngestRecord(userMessages, messages[i]), messages, i + 1)

\* const userMessages = {}; messages.forEach(...)
BuildUserMessages(messages) == IngestFrom(EmptyObject, messages, 1)

\* JSON.parse(text) does not throw.
JsonValid(text) == text.syntax = "valid"

\* json.messages is an array, so that messages.forEach runs.
HasMessages(text) ==
    /\ JsonValid(text)
    /\ text.value.type = "object"
    /\ "messages" \in DOMAIN text.value
    /\ text.value.messages.type = "array"

MessagesOf(text) == text.value.messages.items

\* Mutant: a parse error clears the held state.
OnLoadDataClears(cur, text) ==
    IF HasMessages(text) THEN Some(BuildUserMessages(MessagesOf(text))) ELSE None

\* Mutant: the new document is merged into the held mapping.
OnLoadDataMerges(cur, text) ==
    IF HasMessages(text)
    THEN Some(IngestFrom(IF cur = None THEN EmptyObject ELSE cur[1],
                         MessagesOf(text), 1))
    ELSE cur

\* reader.onload: the value of `data` after the handler, given it before.
OnLoadData(cur, text) ==
    IF HasMessages(text)
    THEN Some(BuildUserMessages(MessagesOf(text)))     \* setData(userMessages)
    ELSE cur                                           \* catch (error)

(* --------------------------- decodeUnicode ---------------------------- *)

IsHex(c) == IsDigit(c) \/ (c >= 65 /\ c <= 70) \/ (c >= 97 /\ c <= 102)

HexVal(c) == IF IsDigit(c) THEN c - 48 ELSE IF c >= 97 THEN c - 87 ELSE c - 55

\* /\\u([0-9a-fA-F]{4})/ matches at index i
EscapeAt(s, i) ==
    /\ i + 5 <= Len(s)
    /\ s[i] = 92
    /\ s[i + 1] = 117
    /\ \A j \in 2..5 : IsHex(s[i + j])

RECURSIVE ReplaceEscapes(_, _)
\* unicodeString.replace(/\\u([0-9a-fA-F]{4})/g, "%u$1"), from index i
ReplaceEscapes(s, i) ==
    IF i > Len(s) THEN <<>>
    ELSE IF EscapeAt(s, i)
    THEN <<37, 117>> \o SubSeq(s, i + 2, i + 5) \o ReplaceEscapes(s, i + 6)
    ELSE <<s[i]>> \o ReplaceEscapes(s, i + 1)

\* "%XX" with two hex digits stands at index i
PercentAt(s, i) ==
    i + 2 <= Len(s) /\ s[i] = 37 /\ IsHex(s[i + 1]) /\ IsHex(s[i + 2])

ByteAt(s, i) == HexVal(s[i + 1]) * 16 + HexVal(s[i + 2])

\* The number of octets of the UTF-8 sequence that byte b opens (0: none).
OctetCount(b) ==
    IF b >= 192 /\ b <= 223 THEN 2
    ELSE IF b >= 224 /\ b <= 239 THEN 3
    ELSE IF b >= 240 /\ b <= 247 THEN 4
    ELSE 0

UriFail == [ok |-> FALSE, str |-> <<>>]

RECURSIVE decodeURIFrom(_, _)
\* decodeURIComponent from index i: ok = FALSE when it throws URIError.
decodeURIFrom(s, i) ==
    IF i > Len(s) THEN [ok |-> TRUE, str |-> <<>>]
    ELSE
    LET Then(out, n) ==
            LET rest == decodeURIFrom(s, i + n) IN
            IF rest.ok THEN [ok |-> TRUE, str |-> out \o rest.str] ELSE UriFail
    IN  IF s[i] # 37 THEN Then(<<s[i]>>, 1)
        ELSE IF ~PercentAt(s, i) THEN UriFail
        ELSE
        LET b == ByteAt(s, i)
            n == OctetCount(b)
        IN  IF b < 128 THEN Then(<<b>>, 3)
            ELSE IF n = 0 THEN UriFail
            ELSE IF \E k \in 1..(n - 1) : ~PercentAt(s, i + 3 * k) THEN UriFail
            ELSE
            LET octets == [k \in 1..n |-> ByteAt(s, i + 3 * (k - 1))]
                sym == decodeSymbols(octets, 1)
            IN  IF sym.ok THEN Then(sym.str, 3 * n) ELSE UriFail

decodeURIComponent(s) == decodeURIFrom(s, 1)

\* decodeUnicode(unicodeString)
decodeUnicode(unicodeString) ==
    LET r == decodeURIComponent(ReplaceEscapes(unicodeString, 1)) IN
    IF r.ok THEN r.str
    ELSE unicodeString          \* catch: the original string

(* --------------------------- filterMessages --------------------------- *)

sLike == <<108, 105, 107, 101>>
sAttachment == <<97, 116, 116, 97, 99, 104, 109, 101, 110, 116>>
sLikedAMessage == <<108, 105, 107, 101, 100, 32, 97, 32, 109, 101, 115, 115, 97, 103, 101>>

\* WhiteSpace and LineTerminator code units, which String.prototype.trim strips
WhiteSpace ==
    {9, 10, 11, 12, 13, 32, 160, 5760, 8232, 8233, 8239, 8287, 12288, 65279}
        \cup (8192..8202)

RECURSIVE TrimStart(_)
TrimStart(s) ==
    IF s # <<>> /\ Head(s) \in WhiteSpace THEN TrimStart(Tail(s)) ELSE s

RECURSIVE TrimEnd(_)
TrimEnd(s) ==
    IF s # <<>> /\ s[Len(s)] \in WhiteSpace
    THEN TrimEnd(SubSeq(s, 1, Len(s) - 1)) ELSE s

\* String.prototype.trim
Trim(s) == TrimEnd(TrimStart(s))

\* toLowerCase of one code unit of the Latin-1 range
LowerUnit(c) ==
    IF (c >= 65 /\ c <= 90) \/ (c >= 192 /\ c <= 222 /\ c # 215)
    THEN c + 32 ELSE c

\* String.prototype.toLowerCase
ToLowerCase(s) == [i \in 1..Len(s) |-> LowerUnit(s[i])]

\* String.prototype.includes
Includes(s, pat) ==
    \E i \in 1..(Len(s) - Len(pat) + 1) : SubSeq(s, i, i + Len(pat) - 1) = pat

\* /[^\u0000-\u007F]/.test(s)
HasNonAscii(s) == \E i \in 1..Len(s) : s[i] > 127

\* Mutant: the phrases are looked for without lowering the case.
filterMessagesCaseSensitive(messages) ==
    LET trimmed == [i \in 1..Len(messages) |->
                       [messages[i] EXCEPT !.content = Trim(messages[i].content)]]
        Keep(msg) ==
            /\ msg.content # <<>>
            /\ ~Includes(msg.content, sLikedAMessage)
            /\ ~Includes(msg.content, sAttachment)
            /\ ~Includes(msg.content, sLike)
            /\ ~HasNonAscii(msg.content)
    IN  SelectSeq(trimmed, Keep)

\* filterMessages(messages)
filterMessages(messages) ==
    LET trimmed == [i \in 1..Len(messages) |->
                       [messages[i] EXCEPT !.content = Trim(messages[i].content)]]
        Keep(msg) ==
            /\ msg.content # <<>>
            /\ ~Includes(ToLowerCase(msg.content), sLikedAMessage)
            /\ ~Includes(ToLowerCase(msg.content), sAttachment)
            /\ ~Includes(ToLowerCase(msg.content), sLike)
            /\ ~HasNonAscii(msg.content)
    IN  SelectSeq(trimmed, Keep)

(* --------------------------- getTopMessages --------------------------- *)

\* the most frequent contents shown (slice(0, 7))
TopMessagesShown == 7

RECURSIVE CountContents(_, _, _)
\* messageCounts[msg.content] = (messageCounts[msg.content] || 0) + 1, for the
\* messages from index i on.  The contents drawn below name no member
\* inherited from Object.prototype, for which the sum is not a number.
CountContents(messageCounts, msgs, i) ==
    IF i > Len(msgs) THEN messageCounts
    ELSE LET k == msgs[i].content
             n == IF HasOwn(messageCounts, k) THEN OwnValue(messageCounts, k) ELSE 0
         IN  CountContents(SetOwn(messageCounts, k, n + 1), msgs, i + 1)

\* getTopMessages(messages): the labels and the data of the one dataset
getTopMessages(messages) ==
    LET filteredMessages == filterMessages(messages)
        messageCounts == CountContents(EmptyObject, filteredMessages, 1)
        entries == OwnEntries(messageCounts)
        \* sort((a, b) => b[1] - a[1])
        sortedMessages ==
            Slice(StableSort(entries, [i \in 1..Len(entries) |-> -entries[i].value]),
                  0, TopMessagesShown)
    IN  [labels |-> [i \in 1..Len(sortedMessages) |-> sortedMessages[i].key],
         values |-> [i \in 1..Len(sortedMessages) |-> sortedMessages[i].value]]

(* -------------------------- temporal selection ------------------------ *)

\* msg.timestamp_ms is truthy: present and not 0
TimestampTruthy(msg) == "timestamp_ms" \in DOMAIN msg /\ msg.timestamp_ms # 0

\* getSortedMessagesAscending(messages)
getSortedMessagesAscending(messages) ==
    LET kept == SelectSeq(messages, TimestampTruthy)
    \* sort((a, b) => a.timestamp_ms - b.timestamp_ms)
    IN  StableSort(kept, [i \in 1..Len(kept) |-> kept[i].timestamp_ms])

\* getLatestMessages(messages, count)
getLatestMessages(messages, count) ==
    SliceFrom(getSortedMessagesAscending(messages), -count)

\* getEarliestMessages(messages, count)
getEarliestMessages(messages, count) ==
    Slice(getSortedMessagesAscending(messages), 0, count)

(* ---------------------------- getChartData ---------------------------- *)

\* the senders shown (slice(0, 7))
TopUsersShown == 7

\* Mutant: a sender's messages are counted after filterMessages.
getChartDataFiltered(d) ==
    IF d = None THEN [labels |-> <<>>, values |-> <<>>]
    ELSE
    LET userLabels == ObjectKeys(d[1])
        messageCounts ==
            [i \in 1..Len(userLabels) |->
                [user |-> userLabels[i],
                 count |-> Len(filterMessages(OwnValue(d[1], userLabels[i])))]]
        \* sort((a, b) => b.count - a.count)
        topUsers ==
            Slice(StableSort(messageCounts,
                             [i \in 1..Len(messageCounts) |-> -messageCounts[i].count]),
                  0, TopUsersShown)
    IN  [labels |-> [i \in 1..Len(topUsers) |-> topUsers[i].user],
         values |-> [i \in 1..Len(topUsers) |-> topUsers[i].count]]

\* getChartData() with `data` = d: the labels and the data of the one dataset
getChartData(d) ==
    IF d = None THEN [labels |-> <<>>, values |-> <<>>]
    ELSE
    LET userLabels == ObjectKeys(d[1])
        messageCounts ==
            [i \in 1..Len(userLabels) |->
                [user |-> userLabels[i],
                 count |-> Len(OwnValue(d[1], userLabels[i]))]]
        \* sort((a, b) => b.count - a.count)
        topUsers ==
            Slice(StableSort(messageCounts,
                             [i \in 1..Len(messageCounts) |-> -messageCounts[i].count]),
                  0, TopUsersShown)
    IN  [labels |-> [i \in 1..Len(topUsers) |-> topUsers[i].user],
         values |-> [i \in 1..Len(topUsers) |-> topUsers[i].count]]

(* ------------------------------- files -------------------------------- *)

NotJson == [syntax |-> "invalid"]
JsonNull == [syntax |-> "valid", value |-> [type |-> "null"]]
JsonNoMessages == [syntax |-> "valid", value |-> [type |-> "object"]]
JsonMessagesString ==
    [syntax |-> "valid",
     value |-> [type |-> "object", messages |-> [type |-> "string"]]]

Document(messages) ==
    [syntax |-> "valid",
     value |-> [type |-> "object",
                messages |-> [type |-> "array", items |-> messages]]]

\* The texts on which ingestion reports a parse error.
BadTexts == {NotJson, JsonNull, JsonNoMessages, JsonMessagesString}

\* One record: position i of the document is its timestamp_ms; a sender or
\* content of None is a field the record does not have.
Rec(s, c, i) ==
    LET base == [timestamp_ms |-> i] IN
    LET withS == IF s = None THEN base
                 ELSE [f \in DOMAIN base \cup {"sender_name"} |->
                          IF f = "sender_name" THEN s[1] ELSE base[f]] IN
    IF c = None THEN withS
    ELSE [f \in DOMAIN withS \cup {"content"} |->
             IF f = "content" THEN c[1] ELSE withS[f]]

\* The documents of at most n records with senders from S and contents from C.
Documents(S, C, n) ==
    { Document([i \in DOMAIN sc |-> Rec(sc[i][1], sc[i][2], i)]) :
        sc \in SeqUpTo(S \X C, n) }

(* ------------------------------- state -------------------------------- *)

VARIABLES
    data,       \* useState<UserMessages | null>: None, or Some(mapping)
    pending,    \* the texts of the reads in flight, in the order selected
    outcome,    \* what the last completed read did: "idle", "set", "error"
    lastOk,     \* history: the last text whose read completed and parsed
    lastIdx,    \* history: the place in `pending` of the last completed read
    op,         \* the function applied last ("none" before any)
    arg,        \* its input
    ret         \* its result

vars == <<data, pending, outcome, lastOk, lastIdx, op, arg, ret>>

fnVars == <<op, arg, ret>>
ingestVars == <<data, pending, outcome, lastOk, lastIdx>>

RemoveAt(s, i) == SubSeq(s, 1, i - 1) \o SubSeq(s, i + 1, Len(s))

\* handleFileUpload(event) with event.target.files = files: a read of files[0]
\* starts; with no file selected nothing happens.
HandleFileUpload(files) ==
    /\ IF Len(files) > 0
       THEN pending' = Append(pending, files[1])
       ELSE pending' = pending
    /\ UNCHANGED <<data, outcome, lastOk, lastIdx, fnVars>>

\* reader.onload for the i-th read in flight.
OnLoad(i) ==
    /\ i \in 1..Len(pending)
    /\ data' = OnLoadData(data, pending[i])
    /\ outcome' = IF HasMessages(pending[i]) THEN "set" ELSE "error"
    /\ lastOk' = IF HasMessages(pending[i]) THEN Some(pending[i]) ELSE lastOk
    /\ lastIdx' = i
    /\ pending' = RemoveAt(pending, i)
    /\ UNCHANGED fnVars

IngestInit ==
    /\ data = None
    /\ pending = <<>>
    /\ outcome = "idle"
    /\ lastOk = None
    /\ lastIdx = 0

FnIdle == op = "none" /\ arg = <<>> /\ ret = <<>>

(* ------------- Spec: uploads and read completions interleave ---------- *)

SmallFiles == BadTexts \cup Documents({Some(sA), Some(sB), Some(sEAcute)}, {Some(sHi)}, MaxRecords)

FileLists == {<<>>} \cup {<<f>> : f \in SmallFiles}

Init == IngestInit /\ FnIdle

Upload ==
    /\ Len(pending) < MaxPending
    /\ \E files \in FileLists : HandleFileUpload(files)

Complete == \E i \in 1..Len(pending) : OnLoad(i)

Next == Upload \/ Complete

Spec == Init /\ [][Next]_vars

(* ------------- SpecBatch: one document, many kinds of record ---------- *)

BatchSenders == {None, Some(sA), Some(sMojibake), Some(sEAcute), Some(sConstructor)}
BatchContents == {None, Some(sHi), Some(sEAcute)}

BatchFiles == BadTexts \cup Documents(BatchSenders, BatchContents, MaxBatch)

\* A fresh session: files are selected one at a time until one is ingested.
BatchUpload ==
    /\ pending = <<>>
    /\ data = None
    /\ \E f \in BatchFiles : HandleFileUpload(<<f>>)

BatchNext == BatchUpload \/ Complete

SpecBatch == Init /\ [][BatchNext]_vars

(* ---------------------- claims about ingestion ------------------------ *)

\* Both texts of the record decode.
Decodes(msg) == utf8decode(ContentOf(msg)).ok /\ utf8decode(SenderOf(msg)).ok

\* The record as it is held once decoded.
Decoded(msg) ==
    Spread(msg, utf8decode(ContentOf(msg)).str, utf8decode(SenderOf(msg)).str)

\* The record with its original texts.
Undecoded(msg) == Spread(msg, ContentOf(msg), SenderOf(msg))

\* Every record held, sender after sender.
Held == IF data = None THEN <<>> ELSE Flat(ObjectValues(data[1]))

\* C1: when the read of a text that is not valid JSON, or is valid JSON without
\* a messages sequence, completes, the held state stays what it was.
C1_ParseErrorKeepsState ==
    [][\A i \in 1..Len(pending) :
          (pending' = RemoveAt(pending, i) /\ lastIdx' = i /\ pending[i] \in BadTexts)
              => data' = data]_vars

\* A read ended in a parse error while a document was held.
C1_Witness == outcome = "error" /\ data # None /\ Len(Held) > 0

\* C2: the held state is the initial empty state, or exactly the grouping built
\* from the document that parsed and whose read completed last.
C2_LastWriterWins ==
    data = IF lastOk = None THEN None
           ELSE Some(BuildUserMessages(MessagesOf(lastOk[1])))

\* The read selected second completed while the one selected first, of another
\* document, is still in flight; the state holds the records of the second.
C2_Witness ==
    /\ outcome = "set"
    /\ lastIdx = 2
    /\ Len(pending) >= 1
    /\ HasMessages(pending[1])
    /\ pending[1] # lastOk[1]
    /\ Len(Held) > 0

\* C3: after a document is ingested, every record that decodes is held under
\* its decoded sender name, and each sender's sequence is exactly that sender's
\* decoded records in document order.
C3_DecodedRecordsGrouped ==
    outcome = "set" =>
        LET msgs == MessagesOf(lastOk[1])
            um == data[1]
            Of(k) == LET Mine(m) == Decodes(m) /\ Decoded(m).sender_name = k
                         mine == SelectSeq(msgs, Mine)
                     IN  [i \in 1..Len(mine) |-> Decoded(mine[i])]
        IN  /\ \A i \in 1..Len(msgs) :
                   Decodes(msgs[i]) => HasOwn(um, Decoded(msgs[i]).sender_name)
            /\ \A j \in 1..Len(um) : um[j].value = Of(um[j].key)

MaxFrags == 3

sNbsp == <<160>>
sLikeCapital == <<76, 105, 107, 101>>
sAttachmentCapital == <<65, 84, 84, 65, 67, 72, 77, 69, 78, 84>>
sDAMessage == <<100, 32, 97, 32, 109, 101, 115, 115, 97, 103, 101>>

FilterFrags ==
    {<<32>>, sNbsp, sHi, sLikeCapital, sAttachmentCapital, sDAMessage, sEAcute}

FilterContents == {Flat(fs) : fs \in SeqUpTo(FilterFrags, MaxFrags)}

FnInit(inputs) == IngestInit /\ op = "none" /\ ret = <<>> /\ arg \in inputs

FilterInit ==
    FnInit({<<[sender_name |-> sA, content |-> c, timestamp_ms |-> 1]>> :
                c \in FilterContents})

ApplyFilter ==
    /\ op = "none"
    /\ op' = "filterMessages"
    /\ ret' = filterMessages(arg)
    /\ UNCHANGED <<arg, ingestVars>>

SpecFilter == FilterInit /\ [][ApplyFilter]_vars

\* The content without the white space around it, by position.
TrimmedOf(s) ==
    LET inner == {i \in 1..Len(s) : s[i] \notin WhiteSpace} IN
    IF inner = {} THEN <<>>
    ELSE SubSeq(s, CHOOSE i \in inner : \A j \in inner : i <= j,
                   CHOOSE i \in inner : \A j \in inner : i >= j)

\* pat occurs in s when case is ignored
ContainsIgnoringCase(s, pat) ==
    \E i \in 1..(Len(s) - Len(pat) + 1) :
        \A j \in 1..Len(pat) : LowerUnit(s[i + j - 1]) = pat[j]

\* C5: filterMessages([m]) is empty exactly when the trimmed content of m is
\* empty, holds "like", "attachment" or "liked a message" in any case, or holds
\* a character outside 7-bit ASCII; otherwise it is m with the trimmed content.
C5_FilterOne ==
    op = "filterMessages" =>
        LET m == arg[1]
            t == TrimmedOf(m.content)
            drop == \/ t = <<>>
                    \/ ContainsIgnoringCase(t, sLike)
                    \/ ContainsIgnoringCase(t, sAttachment)
                    \/ ContainsIgnoringCase(t, sLikedAMessage)
                    \/ \E i \in 1..Len(t) : t[i] > 127
        IN  /\ (ret = <<>>) <=> drop
            /\ ~drop => ret = <<[m EXCEPT !.content = t]>>

\* A message with white space around an ASCII content is kept, trimmed.
C5_Witness ==
    /\ op = "filterMessages"
    /\ Len(ret) = 1
    /\ ret[1].content # arg[1].content

(* ------------- SpecTemporal: sorting and slicing by timestamp --------- *)

\* messages in a sequence
MaxMsgs == 3
\* the largest timestamp_ms
MaxTs == 2
\* the largest count asked for
MaxCount == 3

\* The i-th message of a sequence, told apart by its content; a timestamp of
\* None is a missing field.
TemporalMsg(i, ts) ==
    IF ts = None THEN [sender_name |-> sA, content |-> <<48 + i>>]
    ELSE [sender_name |-> sA, content |-> <<48 + i>>, timestamp_ms |-> ts[1]]

Timestamps == {None} \cup {Some(x) : x \in 0..MaxTs}

TemporalInputs ==
    { [messages |-> [i \in DOMAIN tss |-> TemporalMsg(i, tss[i])], count |-> n] :
        tss \in SeqUpTo(Timestamps, MaxMsgs), n \in 0..MaxCount }

ApplySorted ==
    /\ op = "none"
    /\ op' = "getSortedMessagesAscending"
    /\ ret' = getSortedMessagesAscending(arg.messages)
    /\ UNCHANGED <<arg, ingestVars>>

ApplyLatest ==
    /\ op = "none"
    /\ op' = "getLatestMessages"
    /\ ret' = getLatestMessages(arg.messages, arg.count)
    /\ UNCHANGED <<arg, ingestVars>>

ApplyEarliest ==
    /\ op = "none"
    /\ op' = "getEarliestMessages"
    /\ ret' = getEarliestMessages(arg.messages, arg.count)
    /\ UNCHANGED <<arg, ingestVars>>

TemporalNext == ApplySorted \/ ApplyLatest \/ ApplyEarliest

TemporalInit == FnInit(TemporalInputs)

SpecTemporal == TemporalInit /\ [][TemporalNext]_vars

HasTimestamp(msg) == "timestamp_ms" \in DOMAIN msg

\* C6: for every count n >= 0, getLatestMessages and getEarliestMessages return
\* at most n messages and no more than the input has messages with a timestamp.
C6_AtMostCount ==
    op \in {"getLatestMessages", "getEarliestMessages"} =>
        /\ Len(ret) <= arg.count
        /\ Len(ret) <= Len(SelectSeq(arg.messages, HasTimestamp))

\* C7: getSortedMessagesAscending returns exactly the messages that have a
\* timestamp_ms, whatever its value, by non-decreasing timestamp_ms, those of
\* equal timestamp_ms in input order.
C7_DropsOnlyAbsent ==
    op = "getSortedMessagesAscending" =>
        LET kept == SelectSeq(arg.messages, HasTimestamp) IN
        /\ Len(ret) = Len(kept)
        /\ \A i \in 1..Len(kept) : \E j \in 1..Len(ret) : ret[j] = kept[i]
        /\ \A i, j \in 1..Len(ret) :
               i < j => \/ ret[i].timestamp_ms < ret[j].timestamp_ms
                        \/ /\ ret[i].timestamp_ms = ret[j].timestamp_ms
                           /\ ret[i].content[1] < ret[j].content[1]

(* ----------------- SpecChart: the sender counts of a document --------- *)

\* records of one sender in a document
MaxPerSender == 2

sC == <<67>>
sD == <<68>>
sE == <<69>>
sF == <<70>>
sTen == <<49, 48>>
sFive == <<53>>

ChartSenders == <<sA, sB, sC, sD, sE, sF, sTen, sFive>>

\* The document in which sender i has c[i] records, the senders taking turns;
\* every other round is of messages that filterMessages drops.
ChartDocument(c) ==
    LET Round(r) ==
            LET In(i) == c[i] >= r
                who == SelectSeq([i \in 1..Len(ChartSenders) |-> i], In)
            IN  [j \in 1..Len(who) |->
                    Rec(Some(ChartSenders[who[j]]),
                        Some(IF r % 2 = 1 THEN sLikeCapital ELSE sHi),
                        (r - 1) * Len(ChartSenders) + who[j])]
    IN  Document(Flat([r \in 1..MaxPerSender |-> Round(r)]))

ChartFiles ==
    {ChartDocument(c) : c \in [1..Len(ChartSenders) -> 0..MaxPerSender]}

ChartUpload ==
    /\ pending = <<>>
    /\ data = None
    /\ \E f \in ChartFiles : HandleFileUpload(<<f>>)

\* A render: getChartData() reads `data`.
GetChartData ==
    /\ op' = "getChartData"
    /\ arg' = data
    /\ ret' = getChartData(data)
    /\ UNCHANGED ingestVars

ChartNext == ChartUpload \/ Complete \/ GetChartData

SpecChart == Init /\ [][ChartNext]_vars

\* C8: the sender counts are min(7, number of senders) label/value pairs in
\* non-increasing value order; each value is the number of records of the
\* document with that sender, filtered or not; no sender left out has more
\* records than one shown.
C8_SenderCounts ==
    (op = "getChartData" /\ arg # None) =>
        LET msgs == MessagesOf(lastOk[1])
            Count(k) == Cardinality({i \in 1..Len(msgs) : SenderOf(msgs[i]) = k})
            senders == {SenderOf(msgs[i]) : i \in 1..Len(msgs)}
            n == Len(ret.labels)
            shown == {ret.labels[i] : i \in 1..n}
        IN  /\ n = Min(7, Cardinality(senders))
            /\ Len(ret.values) = n
            /\ Cardinality(shown) = n
            /\ shown \subseteq senders
            /\ \A i \in 1..n : ret.values[i] = Count(ret.labels[i])
            /\ \A i \in 1..(n - 1) : ret.values[i] >= ret.values[i + 1]
            /\ \A k \in senders \ shown : \A i \in 1..n : Count(k) <= ret.values[i]

\* More than seven senders, of unequal counts, with messages the filter drops.
C8_Witness ==
    /\ op = "getChartData"
    /\ arg # None
    /\ Len(arg[1]) > 7
    /\ ret.values[1] > ret.values[7]
    /\ Len(filterMessages(Held)) < Len(Held)

(* ----------------- SpecTop: the most frequent contents ---------------- *)

\* occurrences of one content in a message sequence
MaxRep == 2

sOk == <<111, 107>>
sHiPadded == <<32, 104, 105>>

TopContents ==
    <<sHi, sOk, sFive, sTen, sA, sB, sC, sD, sHiPadded, sLikeCapital>>

\* The messages in which content i occurs c[i] times, the contents taking
\* turns in the order of TopContents, or in the reverse order.
TopMessages(c, reversed) ==
    LET n == Len(TopContents)
        order == [i \in 1..n |-> IF reversed THEN n + 1 - i ELSE i]
        Round(r) ==
            LET In(i) == c[i] >= r
                which == SelectSeq(order, In)
            IN  [j \in 1..Len(which) |->
                    [sender_name |-> sA, content |-> TopContents[which[j]]]]
    IN  Flat([r \in 1..MaxRep |-> Round(r)])

TopInputs ==
    {TopMessages(c, b) : c \in [1..Len(TopContents) -> 0..MaxRep], b \in BOOLEAN}

ApplyTop ==
    /\ op = "none"
    /\ op' = "getTopMessages"
    /\ ret' = getTopMessages(arg)
    /\ UNCHANGED <<arg, ingestVars>>

TopInit == FnInit(TopInputs)

SpecTop == TopInit /\ [][ApplyTop]_vars

\* C9: getTopMessages returns at most 7 label/count pairs over the distinct
\* trimmed contents of the messages that pass the filter, each count the number
\* of occurrences, by count descending, contents of equal count in the order
\* in which they first occur.
C9_TopMessages ==
    op = "getTopMessages" =>
        LET kept == filterMessages(arg)
            Count(k) == Cardinality({i \in 1..Len(kept) : kept[i].content = k})
            First(k) == CHOOSE i \in 1..Len(kept) :
                            /\ kept[i].content = k
                            /\ \A j \in 1..(i - 1) : kept[j].content # k
            n == Len(ret.labels)
        IN  /\ n <= 7
            /\ Len(ret.values) = n
            /\ \A i \in 1..n : Count(ret.labels[i]) > 0
            /\ \A i \in 1..n : ret.values[i] = Count(ret.labels[i])
            /\ \A i, j \in 1..n :
                   i < j => \/ ret.values[i] > ret.values[j]
                            \/ /\ ret.values[i] = ret.values[j]
                               /\ First(ret.labels[i]) < First(ret.labels[j])

(* ----------------- SpecDecode: decodeUnicode on one text -------------- *)

\* parts a text is put together from
MaxParts == 3

sEscapeA == <<92, 117, 48, 48, 52, 49>>
sEscapeEAcute == <<92, 117, 48, 48, 69, 57>>
sEscapeCut == <<92, 117, 48, 48>>
sPercent == <<37>>
sPercentA == <<37, 52, 49>>

DecodeParts == {sEscapeA, sEscapeEAcute, sEscapeCut, sHi, sPercent, sPercentA, sEAcute}

DecodeInputs == {Flat(ps) : ps \in SeqUpTo(DecodeParts, MaxParts)}

ApplyDecodeUnicode ==
    /\ op = "none"
    /\ op' = "decodeUnicode"
    /\ ret' = decodeUnicode(arg)
    /\ UNCHANGED <<arg, ingestVars>>

DecodeInit == FnInit(DecodeInputs)

SpecDecode == DecodeInit /\ [][ApplyDecodeUnicode]_vars

HasEscape(s) == \E i \in 1..Len(s) : EscapeAt(s, i)

RECURSIVE Unescaped(_, _)
\* The text with every escape replaced by the character it names.
Unescaped(s, i) ==
    IF i > Len(s) THEN <<>>
    ELSE IF EscapeAt(s, i)
    THEN << HexVal(s[i + 2]) * 4096 + HexVal(s[i + 3]) * 256
              + HexVal(s[i + 4]) * 16 + HexVal(s[i + 5]) >> \o Unescaped(s, i + 6)
    ELSE <<s[i]>> \o Unescaped(s, i + 1)

\* C10: for a text that holds an escape, decodeUnicode returns the text with
\* every escape replaced by its character; the input comes back unchanged only
\* when decoding fails (here: only a text with a stray percent sign may fail).
C10_EscapesDecoded ==
    (op = "decodeUnicode" /\ HasEscape(arg) /\ \A i \in 1..Len(arg) : arg[i] # 37)
        => ret = Unescaped(arg, 1)

=============================================================================
